---- MODULE Spec2Model ----
(***************************************************************************)
(* Model of libslic3r/SLA/SupportIslands/VoronoiGraphUtils.cpp: skeleton   *)
(* construction from an annotated Voronoi diagram, the explicit-stack      *)
(* longest-path search, circle resolution, merging of extended paths and   *)
(* reshaping of the longest path.                                          *)
(*                                                                         *)
(* Nodes are positive integers, 0 stands for nullptr.  Lengths are         *)
(* naturals, so "d > circle.length / 2." is written 2 * d > circle.length. *)
(* A Path is [path |-> sequence of nodes, length |-> number].  A           *)
(* SideBranches priority queue is a sequence kept longest first, a         *)
(* SideBranchesMap is a function whose DOMAIN is the set of keys, circles  *)
(* are a sequence addressed by 0-based index (circles[i + 1]) and the      *)
(* connected-circle map is a function from 0-based indexes to sets.        *)
(***************************************************************************)
EXTENDS Integers, Sequences, FiniteSets, TLC

VARIABLES
    mode,        \* which entry point of VoronoiGraphUtils this behaviour runs
    pc,          \* position inside that entry point
    graph,       \* skeleton the path functions read: node -> sequence of Neighbor
    ex_path,     \* the ExPath argument of the circle functions and of reshape
    arg,         \* the remaining arguments of the entry point
    result,      \* what the entry point returned
    call_stack,  \* create_longest_path: the CallStack, its top last
    heap         \* create_longest_path: the objects the tasks share

vars == <<mode, pc, graph, ex_path, arg, result, call_stack, heap>>

(***************************************************************************)
(* Bounds of the model.                                                    *)
(***************************************************************************)
\* Nodes of a circle handed to the circle functions.
MaxCircleNodes == 4
\* Longest skeleton edge.
MaxEdgeLength == 2
\* Circles of each extended path handed to append_neighbor_branch.
MaxCircles == 2
\* Nodes of a skeleton handed to reshape_longest_path.
MaxNodes == 3
\* Nodes of a skeleton handed to create_longest_path.
MaxSkeletonNodes == 4
\* Twin pairs of half-edges of a diagram handed to getSkeleton.
MaxEdgePairs == 2
\* Edges of a skeleton handed to sample_voronoi_graph.
MaxSampleEdges == 3
\* Greatest config.max_length_for_one_support_point.
MaxSupportLength == 8
\* Greatest config.start_distance.
MaxStartDistance == 4

EdgeLengths == 1..MaxEdgeLength

\* Edge lengths of the tree-shaped skeletons: the shortest and the longest.
TreeEdgeLengths == {1, MaxEdgeLength}

(***************************************************************************)
(* Generic helpers.                                                        *)
(***************************************************************************)
Range(s) == {s[i] : i \in DOMAIN s}

Reverse(s) == [i \in 1..Len(s) |-> s[Len(s) + 1 - i]]

\* std::find: index of the first occurrence of x in s, Len(s) + 1 for end().
Find(s, x) ==
    IF \E i \in DOMAIN s : s[i] = x
    THEN CHOOSE i \in DOMAIN s : s[i] = x /\ \A j \in 1..(i - 1) : s[j] /= x
    ELSE Len(s) + 1

RECURSIVE SumSeq(_)
SumSeq(s) == IF s = <<>> THEN 0 ELSE Head(s) + SumSeq(Tail(s))

\* The empty std::map.
EmptyMap == [x \in {} |-> {}]

NullPath == [path |-> <<>>, length |-> 0]

NoExPath ==
    [path |-> <<>>, length |-> 0, side_branches |-> EmptyMap,
     circles |-> <<>>, connected_circle |-> EmptyMap]

\* No task data and no extended path allocated.
NoHeap == [data |-> <<>>, ex |-> <<>>]

(***************************************************************************)
(* The skeleton as the path functions see it.                              *)
(***************************************************************************)
\* Neighbor lists built from a sequence of edges <<a, b, length>>, each edge
\* appended to both endpoints in order, as getSkeleton installs them.
RECURSIVE MakeGraph(_, _)
MakeGraph(nodes, edges) ==
    IF edges = <<>> THEN [n \in nodes |-> <<>>]
    ELSE LET g == MakeGraph(nodes, SubSeq(edges, 1, Len(edges) - 1))
             e == edges[Len(edges)]
         IN  [g EXCEPT
                ![e[1]] = Append(g[e[1]], [node |-> e[2], edge_length |-> e[3]]),
                ![e[2]] = Append(g[e[2]], [node |-> e[1], edge_length |-> e[3]])]

\* VoronoiGraphUtils::get_neighbor: index of the first neighbor record of
\* `from` that points to `to`, 0 for nullptr.
get_neighbor(g, from, to) ==
    LET ns == g[from]
    IN  IF \E i \in DOMAIN ns : ns[i].node = to
        THEN CHOOSE i \in DOMAIN ns :
                 ns[i].node = to /\ \A j \in 1..(i - 1) : ns[j].node /= to
        ELSE 0

\* VoronoiGraphUtils::get_neighbor_distance (asserts the neighbor exists).
get_neighbor_distance(g, from, to) ==
    g[from][get_neighbor(g, from, to)].edge_length

(***************************************************************************)
(* std::priority_queue<Path, ..., OrderLengthFromLongest>.                 *)
(***************************************************************************)
RECURSIVE PQPush(_, _)
PQPush(q, p) ==
    IF q = <<>> THEN <<p>>
    ELSE IF Head(q).length >= p.length
         THEN <<Head(q)>> \o PQPush(Tail(q), p)
         ELSE <<p>> \o q

PQTop(q) == Head(q)

PQPop(q) == Tail(q)

(***************************************************************************)
(* VoronoiGraphUtils::find_longest_path_on_circle                          *)
(***************************************************************************)
\* The loop body with the reverse way round never taken: the running distance
\* is used for every node, however far round the circle it is.
CircleLoopBody_NoReverse(g, circle, side_branches, st, i) ==
    LET circle_node == circle.path[i]
        distance_on_circle ==
            IF st.prev_circle_node /= 0
            THEN st.distance_on_circle +
                 get_neighbor_distance(g, circle_node, st.prev_circle_node)
            ELSE st.distance_on_circle
        st1 == [st EXCEPT !.distance_on_circle = distance_on_circle,
                          !.prev_circle_node = circle_node]
    IN  IF circle_node \notin DOMAIN side_branches THEN st1
        ELSE
          LET longest_node_branch == PQTop(side_branches[circle_node])
              circle_branch_length ==
                  longest_node_branch.length + distance_on_circle
          IN  IF st.longest_branch_length < circle_branch_length
              THEN [st1 EXCEPT
                      !.longest_branch_length = circle_branch_length,
                      !.longest_circle_node = circle_node,
                      !.longest_circle_branch = longest_node_branch]
              ELSE st1

\* One iteration of the loop over circle.path (lines 142-166); `st` holds the
\* locals of the function.
CircleLoopBody(g, circle, side_branches, st, i) ==
    LET circle_node == circle.path[i]
        distance_on_circle ==
            IF st.prev_circle_node /= 0
            THEN st.distance_on_circle +
                 get_neighbor_distance(g, circle_node, st.prev_circle_node)
            ELSE st.distance_on_circle
        st1 == [st EXCEPT !.distance_on_circle = distance_on_circle,
                          !.prev_circle_node = circle_node]
    IN  IF circle_node \notin DOMAIN side_branches THEN st1
        ELSE
          LET is_short_revers_direction ==
                  st.is_short_revers_direction \/
                  2 * distance_on_circle > circle.length
              longest_node_branch == PQTop(side_branches[circle_node])
              circle_branch_length ==
                  longest_node_branch.length +
                  (IF is_short_revers_direction
                   THEN circle.length - distance_on_circle
                   ELSE distance_on_circle)
              st2 == [st1 EXCEPT
                        !.is_short_revers_direction = is_short_revers_direction]
          IN  IF st.longest_branch_length < circle_branch_length
              THEN [st2 EXCEPT
                      !.longest_branch_length = circle_branch_length,
                      !.is_longest_revers_direction = is_short_revers_direction,
                      !.longest_circle_node = circle_node,
                      !.longest_circle_branch = longest_node_branch]
              ELSE st2

RECURSIVE CircleLoop(_, _, _, _, _)
CircleLoop(g, circle, side_branches, st, i) ==
    IF i > Len(circle.path) THEN st
    ELSE CircleLoop(g, circle, side_branches,
                    CircleLoopBody(g, circle, side_branches, st, i), i + 1)

CircleLocals ==
    [distance_on_circle |-> 0, is_longest_revers_direction |-> FALSE,
     longest_circle_node |-> 0, longest_circle_branch |-> NullPath,
     longest_branch_length |-> 0, is_short_revers_direction |-> FALSE,
     prev_circle_node |-> 0]

\* The forward way round taken from the circle's first node (line 183
\* without the + 1).
find_longest_path_on_circle_KeepStart(g, circle, side_branches) ==
    LET st == CircleLoop(g, circle, side_branches, CircleLocals, 1)
        circle_iterator == Find(circle.path, st.longest_circle_node)
        circle_path ==
            IF st.is_longest_revers_direction
            THEN Reverse(SubSeq(circle.path, circle_iterator, Len(circle.path)))
            ELSE IF st.longest_circle_node /= circle.path[1]
                 THEN SubSeq(circle.path, 1, circle_iterator)
                 ELSE <<>>
    IN  [path |-> circle_path \o st.longest_circle_branch.path,
         length |-> st.longest_branch_length]

\* Lines 131-189.
find_longest_path_on_circle(g, circle, side_branches) ==
    LET st == CircleLoop(g, circle, side_branches, CircleLocals, 1)
        circle_iterator == Find(circle.path, st.longest_circle_node)
        circle_path ==
            IF st.is_longest_revers_direction
            THEN Reverse(SubSeq(circle.path, circle_iterator, Len(circle.path)))
            ELSE IF st.longest_circle_node /= circle.path[1]
                 THEN SubSeq(circle.path, 2, circle_iterator)
                 ELSE <<>>
    IN  [path |-> circle_path \o st.longest_circle_branch.path,
         length |-> st.longest_branch_length]

(***************************************************************************)
(* Inputs of the circle functions: a circle 1..n with a pendant leaf n + i *)
(* at every circle node i that owns a side branch.                         *)
(***************************************************************************)
CircleEdges(n, len) ==
    [i \in 1..n |-> <<i, IF i = n THEN 1 ELSE i + 1, len[i]>>]

BranchEdges(n, br) ==
    LET RECURSIVE Collect(_)
        Collect(i) ==
            IF i > n THEN <<>>
            ELSE (IF br[i] > 0 THEN <<<<i, n + i, br[i]>>>> ELSE <<>>)
                 \o Collect(i + 1)
    IN  Collect(1)

CircleGraph(n, len, br) ==
    MakeGraph(1..(2 * n), CircleEdges(n, len) \o BranchEdges(n, br))

CircleSideBranches(n, br) ==
    [i \in {j \in 1..n : br[j] > 0} |-> <<[path |-> <<n + i>>, length |-> br[i]]>>]

InitCircle ==
    \E n \in 3..MaxCircleNodes :
    \E len \in [1..n -> TreeEdgeLengths] :
    \E br \in [1..n -> {0} \cup EdgeLengths] :
        /\ \E i \in 1..n : br[i] > 0
        /\ mode = "circle"
        /\ pc = "call"
        /\ graph = CircleGraph(n, len, br)
        /\ ex_path = [NoExPath EXCEPT
                        !.side_branches = CircleSideBranches(n, br),
                        !.circles = <<[path |-> [i \in 1..n |-> i],
                                       length |-> SumSeq(len)]>>]
        /\ arg = [input_node |-> 1, finished_circle_index |-> 0]
        /\ result = NullPath
        /\ call_stack = <<>>
        /\ heap = NoHeap

FindLongestPathOnCircle ==
    /\ mode = "circle"
    /\ pc = "call"
    /\ result' = find_longest_path_on_circle(
                     graph, ex_path.circles[arg.finished_circle_index + 1],
                     ex_path.side_branches)
    /\ pc' = "done"
    /\ UNCHANGED <<mode, graph, ex_path, arg, call_stack, heap>>

NextCircle == FindLongestPathOnCircle

SpecCircle == InitCircle /\ [][NextCircle]_vars

(***************************************************************************)
(* Claims about find_longest_path_on_circle.                               *)
(***************************************************************************)
Max2(a, b) == IF a >= b THEN a ELSE b

Min2(a, b) == IF a <= b THEN a ELSE b

MaxOf(S) == CHOOSE m \in S : \A x \in S : x <= m

TheCircle == ex_path.circles[arg.finished_circle_index + 1]

\* Arc length from the circle's start to its i-th node, walking forward.
RunningDistance(i) ==
    SumSeq([j \in 1..(i - 1) |->
               get_neighbor_distance(graph, TheCircle.path[j + 1], TheCircle.path[j])])

BranchIndexes ==
    {i \in 1..Len(TheCircle.path) : TheCircle.path[i] \in DOMAIN ex_path.side_branches}

LongestBranchAt(i) == PQTop(ex_path.side_branches[TheCircle.path[i]])

CircleDone == mode = "circle" /\ pc = "done"

ForwardWay(i) == SubSeq(TheCircle.path, 2, i)

BackwardWay(i) == Reverse(SubSeq(TheCircle.path, i, Len(TheCircle.path)))

\* The circle A-B-C-D-A of equal edge length l with one branch of length 2l at C.
IsSquareWithBranchAtC ==
    /\ Len(TheCircle.path) = 4
    /\ BranchIndexes = {3}
    /\ \A i \in 1..4 :
          \A k \in DOMAIN graph[i] :
              graph[i][k].node \in 1..4 => 4 * graph[i][k].edge_length = TheCircle.length
    /\ 2 * LongestBranchAt(3).length = TheCircle.length

\* C8: the returned path is the circle nodes on a shorter way round from the
\* circle's start to the node whose branch wins (start excluded, that node
\* last), followed by that node's longest side branch; on the square with a
\* branch of length 2l at C it is B, C and the branch, of length 4l.
C8_ShorterWayThenBranch ==
    CircleDone =>
        /\ \E i \in BranchIndexes :
              \E way \in {ForwardWay(i), BackwardWay(i)} :
                  /\ result.path = way \o LongestBranchAt(i).path
                  /\ way = ForwardWay(i) =>
                         2 * RunningDistance(i) <= TheCircle.length
                  /\ way = BackwardWay(i) =>
                         2 * RunningDistance(i) >= TheCircle.length
                  /\ TheCircle.path[1] \notin Range(way)
                  /\ i > 1 => way /= <<>> /\ way[Len(way)] = TheCircle.path[i]
                  /\ result.length = LongestBranchAt(i).length +
                         Min2(RunningDistance(i), TheCircle.length - RunningDistance(i))
        /\ IsSquareWithBranchAtC =>
              /\ result.path = <<2, 3>> \o LongestBranchAt(3).path
              /\ result.length = TheCircle.length

C8_Witness ==
    /\ CircleDone
    /\ IsSquareWithBranchAtC
    /\ Len(result.path) = 3
    /\ result.length = 4 * get_neighbor_distance(graph, 1, 2)

(***************************************************************************)
(* VoronoiGraphUtils::merge_connected_circle and append_neighbor_branch    *)
(***************************************************************************)
\* std::map operator[] followed by an assignment: the key is created if absent.
MapPut(m, k, v) == [x \in DOMAIN m \cup {k} |-> IF x = k THEN v ELSE m[x]]

\* std::map operator[] read: a default-constructed (empty) set if absent.
MapGet(m, k) == IF k \in DOMAIN m THEN m[k] ELSE {}

\* Lines 319-325: write the group into every circle of dst_set.
RECURSIVE WriteConnected(_, _, _)
WriteConnected(dst, todo, connected_circle) ==
    IF todo = {} THEN dst
    ELSE LET prev_connection_idx == CHOOSE x \in todo : \A y \in todo : x <= y
         IN  WriteConnected(
                 MapPut(dst, prev_connection_idx,
                        MapGet(dst, prev_connection_idx) \cup
                            (connected_circle \ {prev_connection_idx})),
                 todo \ {prev_connection_idx}, connected_circle)

\* The loop over the items of src (lines 304-326), in key order; `keys` are
\* the keys still to visit, `st` is [dst, done].
RECURSIVE MergeLoop(_, _, _, _)
MergeLoop(st, src, keys, dst_circle_count) ==
    IF keys = {} THEN st.dst
    ELSE
      LET first == CHOOSE x \in keys : \A y \in keys : x <= y
          dst_index == dst_circle_count + first
      IN  IF dst_index \in st.done
          THEN MergeLoop(st, src, keys \ {first}, dst_circle_count)
          ELSE
            LET connected_circle == {dst_circle_count + src_index : src_index \in src[first]}
                dst_set == MapGet(st.dst, dst_index) \cup connected_circle
                dst1 == MapPut(st.dst, dst_index, dst_set)
                dst2 == WriteConnected(dst1, dst_set, dst_set \cup {dst_index})
            IN  MergeLoop([dst |-> dst2, done |-> st.done \cup {dst_index} \cup dst_set],
                          src, keys \ {first}, dst_circle_count)

\* The merge with the indexes of src left as they are (the offset forgotten).
merge_connected_circle_NoShift(dst, src, dst_circle_count) ==
    MergeLoop([dst |-> dst, done |-> {}], src, DOMAIN src, 0)

merge_connected_circle(dst, src, dst_circle_count) ==
    MergeLoop([dst |-> dst, done |-> {}], src, DOMAIN src, dst_circle_count)

\* std::map::insert(first, last): a key already in dst keeps dst's value.
MapInsertRange(dst, src) ==
    [x \in DOMAIN dst \cup DOMAIN src |-> IF x \in DOMAIN dst THEN dst[x] ELSE src[x]]

\* The circles of src inserted at the front of dst.circles (line 345 with
\* dst.circles.begin()).
append_neighbor_branch_InsertFront(dst, src) ==
    LET side_branches ==
            IF DOMAIN src.side_branches /= {}
            THEN MapInsertRange(dst.side_branches, src.side_branches)
            ELSE dst.side_branches
        connected_circle ==
            IF src.circles /= <<>> /\ DOMAIN src.connected_circle /= {}
            THEN merge_connected_circle(dst.connected_circle, src.connected_circle,
                                        Len(dst.circles))
            ELSE dst.connected_circle
        circles ==
            IF src.circles /= <<>> THEN src.circles \o dst.circles ELSE dst.circles
    IN  [dst EXCEPT !.side_branches = side_branches,
                    !.connected_circle = connected_circle,
                    !.circles = circles]

\* Lines 329-349.
append_neighbor_branch(dst, src) ==
    LET side_branches ==
            IF DOMAIN src.side_branches /= {}
            THEN MapInsertRange(dst.side_branches, src.side_branches)
            ELSE dst.side_branches
        connected_circle ==
            IF src.circles /= <<>> /\ DOMAIN src.connected_circle /= {}
            THEN merge_connected_circle(dst.connected_circle, src.connected_circle,
                                        Len(dst.circles))
            ELSE dst.connected_circle
        circles ==
            IF src.circles /= <<>> THEN dst.circles \o src.circles ELSE dst.circles
    IN  [dst EXCEPT !.side_branches = side_branches,
                    !.connected_circle = connected_circle,
                    !.circles = circles]

(***************************************************************************)
(* Inputs of append_neighbor_branch: two extended paths, each with up to   *)
(* MaxCircles circles, a connected-circle map as PostProcessNeighbors      *)
(* writes it (symmetric, transitively closed, no circle listing itself)    *)
(* and side branches at the nodes 1 and 2.                                 *)
(***************************************************************************)
IsSymmetric(m) == \A a \in DOMAIN m : \A b \in m[a] : b \in DOMAIN m /\ a \in m[b]

IsTransitive(m) ==
    \A a \in DOMAIN m : \A b \in m[a] :
        b \in DOMAIN m => \A c \in m[b] : c /= a => c \in m[a]

ConnectedMaps(n) ==
    {m \in UNION {[D -> SUBSET (0..(n - 1))] : D \in SUBSET (0..(n - 1))} :
        /\ \A a \in DOMAIN m : a \notin m[a]
        /\ IsSymmetric(m)
        /\ IsTransitive(m)}

\* Circle i of an input: the triangle on the nodes base + 3i + 1 .. base + 3i + 3.
InputCircles(n, base) ==
    [i \in 1..n |-> [path |-> <<base + 3 * i - 2, base + 3 * i - 1, base + 3 * i>>,
                     length |-> 3]]

\* Side branches at the keys `keys`: at key k one branch to the leaf k + base.
InputSideBranches(len, base) ==
    [k \in {j \in DOMAIN len : len[j] > 0} |->
        <<[path |-> <<k + base>>, length |-> len[k]]>>]

InitMerge ==
    \E n \in 0..MaxCircles, m \in 0..MaxCircles :
    \E dcc \in ConnectedMaps(n), scc \in ConnectedMaps(m) :
    \E dlen \in [1..2 -> {0} \cup EdgeLengths], slen \in [1..2 -> {0} \cup EdgeLengths] :
        /\ mode = "merge"
        /\ pc = "call"
        /\ graph = <<>>
        /\ ex_path = [NoExPath EXCEPT
                        !.side_branches = InputSideBranches(dlen, 2),
                        !.circles = InputCircles(n, 10),
                        !.connected_circle = dcc]
        /\ arg = [src |-> [NoExPath EXCEPT
                             !.side_branches = InputSideBranches(slen, 4),
                             !.circles = InputCircles(m, 30),
                             !.connected_circle = scc]]
        /\ result = NoExPath
        /\ call_stack = <<>>
        /\ heap = NoHeap

AppendNeighborBranch ==
    /\ mode = "merge"
    /\ pc = "call"
    /\ result' = append_neighbor_branch(ex_path, arg.src)
    /\ pc' = "done"
    /\ UNCHANGED <<mode, graph, ex_path, arg, call_stack, heap>>

NextMerge == AppendNeighborBranch

SpecMerge == InitMerge /\ [][NextMerge]_vars

(***************************************************************************)
(* Claims about append_neighbor_branch.                                    *)
(***************************************************************************)
MergeDone == mode = "merge" /\ pc = "done"

AllBranches(m, k) == IF k \in DOMAIN m THEN Range(m[k]) ELSE {}

\* C10: after append_neighbor_branch(dst, src) every branch recorded at a key
\* in dst or in src beforehand is recorded at that key in dst afterwards, also
\* when the key is present in both.
C10_SideBranchesUnion ==
    MergeDone =>
        \A k \in DOMAIN ex_path.side_branches \cup DOMAIN arg.src.side_branches :
            AllBranches(ex_path.side_branches, k) \cup
                AllBranches(arg.src.side_branches, k)
            \subseteq AllBranches(result.side_branches, k)

\* What C11 says of the circles: those of dst keep their indexes 0..n-1 and
\* their connected-circle entries, circle i of src stands at index n + i.
CirclesKept ==
    LET n == Len(ex_path.circles)
    IN  /\ Len(result.circles) = n + Len(arg.src.circles)
        /\ \A k \in 0..(n - 1) :
              /\ result.circles[k + 1] = ex_path.circles[k + 1]
              /\ k \in DOMAIN result.connected_circle
                    <=> k \in DOMAIN ex_path.connected_circle
              /\ MapGet(result.connected_circle, k) = MapGet(ex_path.connected_circle, k)
        /\ \A i \in 0..(Len(arg.src.circles) - 1) :
              result.circles[n + i + 1] = arg.src.circles[i + 1]

\* C11 as stated: the circles are kept as CirclesKept says, and afterwards
\* every circle connected to no other circle has an entry in the
\* connected-circle map, an empty one.
C11_EmptyEntryForLoneCircle ==
    MergeDone =>
        /\ CirclesKept
        /\ \A c \in 0..(Len(result.circles) - 1) :
              MapGet(result.connected_circle, c) = {}
                  => c \in DOMAIN result.connected_circle

\* C11 amended: the circles are kept as CirclesKept says, and a circle has an
\* entry in the connected-circle map afterwards exactly when it had one in
\* the map of the extended path it came from; a circle that had none gets
\* none, not an empty one.
C11_NoEntryForLoneCircle ==
    MergeDone =>
        LET n == Len(ex_path.circles)
        IN  /\ CirclesKept
            /\ DOMAIN result.connected_circle =
                   DOMAIN ex_path.connected_circle \cup
                   {n + k : k \in DOMAIN arg.src.connected_circle}

\* Both extended paths bring circles, src a connected pair, dst a circle with
\* no entry, which has none afterwards either.
C11_Witness ==
    /\ MergeDone
    /\ Len(ex_path.circles) >= 1
    /\ DOMAIN ex_path.connected_circle = {}
    /\ DOMAIN arg.src.connected_circle = {0, 1}
    /\ arg.src.connected_circle[0] = {1}
    /\ 0 \notin DOMAIN result.connected_circle
    /\ Len(ex_path.circles) \in DOMAIN result.connected_circle

(***************************************************************************)
(* VoronoiGraphUtils::reshape_longest_path                                 *)
(***************************************************************************)
\* The swap of lines 376-394 with the superseded length left in path.length
\* (line 392 dropped).
ReshapeSwap_KeepOldLength(st, node) ==
    LET branches == st.path.side_branches[node]
        side_branch == [path |-> Reverse(SubSeq(st.path.path, 1, st.path_index)),
                        length |-> st.actual_length]
        top == PQTop(branches)
        new_main_branch == [path |-> Reverse(top.path), length |-> top.length]
        branches1 == PQPush(PQPop(branches), side_branch)
    IN  [st EXCEPT
           !.path.side_branches[node] = branches1,
           !.path.path = new_main_branch.path \o
                         SubSeq(st.path.path, st.path_index + 1, Len(st.path.path)),
           !.path.length = st.path.length + new_main_branch.length,
           !.path_index = Len(new_main_branch.path),
           !.actual_length = new_main_branch.length]

\* Lines 376-394: swap the longest side branch of `node` with the part of the
\* main path walked so far.
ReshapeSwap(st, node) ==
    LET branches == st.path.side_branches[node]
        side_branch == [path |-> Reverse(SubSeq(st.path.path, 1, st.path_index)),
                        length |-> st.actual_length]
        top == PQTop(branches)
        new_main_branch == [path |-> Reverse(top.path), length |-> top.length]
        branches1 == PQPush(PQPop(branches), side_branch)
    IN  [st EXCEPT
           !.path.side_branches[node] = branches1,
           !.path.path = new_main_branch.path \o
                         SubSeq(st.path.path, st.path_index + 1, Len(st.path.path)),
           !.path.length = (st.path.length + new_main_branch.length) - st.actual_length,
           !.path_index = Len(new_main_branch.path),
           !.actual_length = new_main_branch.length]

\* The loop body with the test of line 373 made strict: a side branch as
\* long as the part walked so far is swapped in too.
ReshapeLoopBody_SwapOnTie(g, st, origin_path, i) ==
    LET node == origin_path[i]
        st1 == IF st.prev_node /= 0
               THEN [st EXCEPT
                       !.path_index = st.path_index + 1,
                       !.actual_length = st.actual_length +
                           get_neighbor_distance(g, st.prev_node, node),
                       !.prev_node = node]
               ELSE [st EXCEPT !.prev_node = node]
    IN  IF node \notin DOMAIN st1.path.side_branches THEN st1
        ELSE IF st1.actual_length > PQTop(st1.path.side_branches[node]).length
             THEN st1
             ELSE ReshapeSwap(st1, node)

\* One iteration of the loop over origin_path (lines 360-395).
ReshapeLoopBody(g, st, origin_path, i) ==
    LET node == origin_path[i]
        st1 == IF st.prev_node /= 0
               THEN [st EXCEPT
                       !.path_index = st.path_index + 1,
                       !.actual_length = st.actual_length +
                           get_neighbor_distance(g, st.prev_node, node),
                       !.prev_node = node]
               ELSE [st EXCEPT !.prev_node = node]
    IN  IF node \notin DOMAIN st1.path.side_branches THEN st1
        ELSE IF st1.actual_length >= PQTop(st1.path.side_branches[node]).length
             THEN st1
             ELSE ReshapeSwap(st1, node)

RECURSIVE ReshapeLoop(_, _, _, _)
ReshapeLoop(g, st, origin_path, i) ==
    IF i > Len(origin_path) THEN st
    ELSE ReshapeLoop(g, ReshapeLoopBody(g, st, origin_path, i), origin_path, i + 1)

\* reshape_longest_path with the loop of lines 360-395 never entered.
reshape_longest_path_Skipped(g, path) == path

reshape_longest_path(g, path) ==
    ReshapeLoop(g, [path |-> path, actual_length |-> 0, prev_node |-> 0,
                    path_index |-> 0],
                path.path, 1).path

(***************************************************************************)
(* Inputs of reshape_longest_path: a tree-shaped skeleton on the nodes     *)
(* 1..n (node i > 1 hangs under a node of lower number), a main path that  *)
(* starts at node 1 and up to two side branches.                           *)
(***************************************************************************)
TreeShapes(n) == {p \in [2..n -> 1..n] : \A i \in 2..n : p[i] < i}

TreeGraph(n, p, len) ==
    MakeGraph(1..n, [i \in 1..(n - 1) |-> <<p[i + 1], i + 1, len[i + 1]>>])

Adjacent(g, a, b) == get_neighbor(g, a, b) /= 0

RECURSIVE ExtendPaths(_, _, _)
ExtendPaths(g, S, k) ==
    IF k = 0 THEN S
    ELSE ExtendPaths(g,
             S \cup UNION {{Append(q, g[q[Len(q)]][j].node) :
                              j \in {x \in DOMAIN g[q[Len(q)]] :
                                        g[q[Len(q)]][x].node \notin Range(q)}} :
                           q \in S},
             k - 1)

\* Every simple path of the skeleton, as its sequence of nodes.
SimplePaths(g) == ExtendPaths(g, {<<n>> : n \in DOMAIN g}, Cardinality(DOMAIN g) - 1)

\* Sum of the edge lengths between the consecutive nodes of a node sequence.
ArcLength(g, nodes) ==
    SumSeq([j \in 1..(Len(nodes) - 1) |-> get_neighbor_distance(g, nodes[j], nodes[j + 1])])

\* The side branches that can hang at node k: simple paths that start at a
\* neighbor of k and avoid k, stored without k, their length counted from k.
BranchCandidates(g) ==
    {<<k, [path |-> q, length |-> get_neighbor_distance(g, k, q[1]) + ArcLength(g, q)]>> :
        <<k, q>> \in {kq \in (DOMAIN g) \X SimplePaths(g) :
                         kq[1] \notin Range(kq[2]) /\ Adjacent(g, kq[1], kq[2][1])}}

RECURSIVE PQFromSet(_)
PQFromSet(S) ==
    IF S = {} THEN <<>>
    ELSE LET b == CHOOSE x \in S : TRUE
         IN  PQPush(PQFromSet(S \ {b}), b)

SideBranchesMapOf(B) ==
    [k \in {kb[1] : kb \in B} |-> PQFromSet({kb[2] : kb \in {x \in B : x[1] = k}})]

InitReshape ==
    \E n \in 2..MaxNodes :
    \E p \in TreeShapes(n) :
    \E len \in [2..n -> TreeEdgeLengths] :
    \E main \in {q \in SimplePaths(TreeGraph(n, p, len)) : q[1] = 1} :
    \E B \in SUBSET BranchCandidates(TreeGraph(n, p, len)) :
        /\ Cardinality(B) <= 2
        /\ mode = "reshape"
        /\ pc = "call"
        /\ graph = TreeGraph(n, p, len)
        /\ ex_path = [NoExPath EXCEPT
                        !.path = main,
                        !.length = ArcLength(TreeGraph(n, p, len), main),
                        !.side_branches = SideBranchesMapOf(B)]
        /\ arg = [first |-> NoExPath]
        /\ result = NoExPath
        /\ call_stack = <<>>
        /\ heap = NoHeap

\* reshape_longest_path(path): first on the input, then once more on its own
\* result.
ReshapeLongestPath ==
    /\ mode = "reshape"
    /\ pc \in {"call", "reshaped"}
    /\ result' = reshape_longest_path(graph, IF pc = "call" THEN ex_path ELSE result)
    /\ pc' = IF pc = "call" THEN "reshaped" ELSE "done"
    /\ arg' = IF pc = "call" THEN [first |-> result'] ELSE arg
    /\ UNCHANGED <<mode, graph, ex_path, call_stack, heap>>

NextReshape == ReshapeLongestPath

SpecReshape == InitReshape /\ [][NextReshape]_vars

(***************************************************************************)
(* Claims about reshape_longest_path.                                      *)
(***************************************************************************)
ReshapedTwice == mode = "reshape" /\ pc = "done"

\* Distance from the far end of branch b, recorded at node v, back to its
\* i-th node.
FromFarEnd(v, b, i) ==
    b.length - (get_neighbor_distance(graph, v, b.path[1]) +
                ArcLength(graph, SubSeq(b.path, 1, i)))

\* No node inside a recorded side branch owns a side branch longer than the
\* rest of the branch beyond that node.
BranchesSettled(ex) ==
    \A v \in DOMAIN ex.side_branches :
        \A b \in Range(ex.side_branches[v]) :
            \A i \in DOMAIN b.path :
                b.path[i] \in DOMAIN ex.side_branches =>
                    PQTop(ex.side_branches[b.path[i]]).length <= FromFarEnd(v, b, i)

SQPush_Back(q, p) == Append(q, p)

\* std::priority_queue<Path, ..., OrderLengthFromShortest>, shortest on top.
RECURSIVE SQPush(_, _)
SQPush(q, p) ==
    IF q = <<>> THEN <<p>>
    ELSE IF Head(q).length <= p.length
         THEN <<Head(q)>> \o SQPush(Tail(q), p)
         ELSE <<p>> \o q

\* VoronoiGraph::Path::append
PathAppend(p, node, length) ==
    [path |-> Append(p.path, node), length |-> p.length + length]

\* The loop over node.neighbors (lines 241-259); st is [search_queue, done,
\* longest_path, expanded], `path` the path popped from the queue and
\* expanded the nodes whose neighbors the loop has gone through, in order.
RECURSIVE SearchNeighbors(_, _, _, _, _, _)
SearchNeighbors(g, ex, nodes, st, path, k) ==
    LET node == path.path[Len(path.path)]
    IN  IF k > Len(g[node]) THEN st
        ELSE
          LET neighbor == g[node][k]
          IN  IF neighbor.node \notin nodes \/ neighbor.node \in st.done
              THEN SearchNeighbors(g, ex, nodes, st, path, k + 1)
              ELSE
                LET neighbor_path == PathAppend(path, neighbor.node, neighbor.edge_length)
                    st1 == [st EXCEPT !.search_queue = SQPush(st.search_queue, neighbor_path)]
                IN  IF neighbor.node \notin DOMAIN ex.side_branches
                    THEN SearchNeighbors(g, ex, nodes, st1, path, k + 1)
                    ELSE
                      LET longest_branch == PQTop(ex.side_branches[neighbor.node])
                          length == longest_branch.length + neighbor_path.length
                      IN  IF st1.longest_path.length < length
                          THEN SearchNeighbors(g, ex, nodes,
                                   [st1 EXCEPT !.longest_path =
                                       [path |-> neighbor_path.path, length |-> length]],
                                   path, k + 1)
                          ELSE SearchNeighbors(g, ex, nodes, st1, path, k + 1)

\* The while loop over search_queue (lines 232-260).
RECURSIVE SearchLoop(_, _, _, _)
SearchLoop(g, ex, nodes, st) ==
    IF st.search_queue = <<>> THEN st
    ELSE
      LET path == Head(st.search_queue)
          st1 == [st EXCEPT !.search_queue = Tail(st.search_queue)]
          node == path.path[Len(path.path)]
      IN  IF node \in st1.done THEN SearchLoop(g, ex, nodes, st1)
          ELSE SearchLoop(g, ex, nodes,
                   SearchNeighbors(g, ex, nodes,
                                   [st1 EXCEPT !.done = st1.done \cup {node},
                                               !.expanded = Append(@, node)],
                                   path, 1))

\* Lines 209-231: the nodes of the circle and of the circles connected to it.
CirclesNodes(ex, finished_circle_index) ==
    Range(ex.circles[finished_circle_index + 1].path) \cup
    UNION {Range(ex.circles[i + 1].path) :
              i \in ex.connected_circle[finished_circle_index]}

\* Lines 232-260: the search from input_node, run until the queue is empty.
SearchCircles(g, input_node, finished_circle_index, ex) ==
    SearchLoop(g, ex, CirclesNodes(ex, finished_circle_index),
               [search_queue |-> <<[path |-> <<input_node>>, length |-> 0]>>,
                done |-> {}, longest_path |-> NullPath, expanded |-> <<>>])

find_longest_path_on_circles(g, input_node, finished_circle_index, ex) ==
    LET circle == ex.circles[finished_circle_index + 1]
    IN  IF finished_circle_index \notin DOMAIN ex.connected_circle
        THEN find_longest_path_on_circle(g, circle, ex.side_branches)
        ELSE
          LET st == SearchCircles(g, input_node, finished_circle_index, ex)
              longest_path == [st.longest_path EXCEPT !.path = Tail(st.longest_path.path)]
              last == longest_path.path[Len(longest_path.path)]
          IN  IF last \notin DOMAIN ex.side_branches THEN longest_path
              ELSE [longest_path EXCEPT
                      !.path = longest_path.path \o PQTop(ex.side_branches[last]).path]

(***************************************************************************)
(* Inputs of the multi-circle search: the circle 1..n and a triangle that  *)
(* shares the node k with it (through two new nodes) or the edge k, k + 1  *)
(* (through one new node), its own edges of length 1; the two circles list *)
(* each other; one or two nodes other than the entry node 1 own a side     *)
(* branch to a pendant leaf.                                               *)
(***************************************************************************)
SecondCircle(n, k, shared_edge) ==
    IF shared_edge
    THEN <<k, IF k = n THEN 1 ELSE k + 1, n + 1>>
    ELSE <<k, n + 1, n + 2>>

\* The edges of the second circle that the first circle does not have.
SecondCircleEdges(n, k, shared_edge, len) ==
    LET c == SecondCircle(n, k, shared_edge)
    IN  IF shared_edge
        THEN <<<<c[2], c[3], 1>>, <<c[3], c[1], 1>>>>
        ELSE <<<<c[1], c[2], 1>>, <<c[2], c[3], 1>>, <<c[3], c[1], 1>>>>

\* br[i] > 0: node i owns a branch of that length to the leaf 10 + i.
PendantEdges(br) ==
    LET RECURSIVE Collect(_)
        Collect(i) ==
            IF i > Len(br) THEN <<>>
            ELSE (IF br[i] > 0 THEN <<<<i, 10 + i, br[i]>>>> ELSE <<>>)
                 \o Collect(i + 1)
    IN  Collect(1)

PendantBranches(br) ==
    [i \in {j \in DOMAIN br : br[j] > 0} |-> <<[path |-> <<10 + i>>, length |-> br[i]]>>]

CirclesGraph(n, k, shared_edge, len, br) ==
    MakeGraph((1..(n + 2)) \cup {10 + i : i \in 1..(n + 2)},
              CircleEdges(n, len) \o SecondCircleEdges(n, k, shared_edge, len)
                  \o PendantEdges(br))

CircleLengthOf(g, nodes) ==
    ArcLength(g, nodes) + get_neighbor_distance(g, nodes[Len(nodes)], nodes[1])

InitCircles ==
    \E n \in 3..MaxCircleNodes :
    \E k \in 1..n, shared_edge \in BOOLEAN :
    \E len \in [1..n -> TreeEdgeLengths] :
    \E br \in [1..(n + 2) -> {0} \cup TreeEdgeLengths] :
        /\ br[1] = 0
        /\ shared_edge => br[n + 2] = 0
        /\ Cardinality({i \in DOMAIN br : br[i] > 0}) \in 1..2
        /\ mode = "circles"
        /\ pc = "call"
        /\ graph = CirclesGraph(n, k, shared_edge, len, br)
        /\ ex_path =
             [NoExPath EXCEPT
                !.side_branches = PendantBranches(br),
                !.circles =
                    <<[path |-> [i \in 1..n |-> i],
                       length |-> CircleLengthOf(CirclesGraph(n, k, shared_edge, len, br),
                                                 [i \in 1..n |-> i])],
                      [path |-> SecondCircle(n, k, shared_edge),
                       length |-> CircleLengthOf(CirclesGraph(n, k, shared_edge, len, br),
                                                 SecondCircle(n, k, shared_edge))]>>,
                !.connected_circle = (0 :> {1}) @@ (1 :> {0})]
        /\ arg = [input_node |-> 1, finished_circle_index |-> 0]
        /\ result = NullPath
        /\ call_stack = <<>>
        /\ heap = NoHeap

FindLongestPathOnCircles ==
    /\ mode = "circles"
    /\ pc = "call"
    /\ result' = find_longest_path_on_circles(graph, arg.input_node,
                                              arg.finished_circle_index, ex_path)
    /\ pc' = "done"
    /\ UNCHANGED <<mode, graph, ex_path, arg, call_stack, heap>>

NextCircles == FindLongestPathOnCircles

SpecCircles == InitCircles /\ [][NextCircles]_vars

(***************************************************************************)
(* The three path-producing functions under one specification.             *)
(***************************************************************************)
InitPaths == InitReshape \/ InitCircle \/ InitCircles

NextPaths == ReshapeLongestPath \/ FindLongestPathOnCircle \/ FindLongestPathOnCircles

SpecPaths == InitPaths /\ [][NextPaths]_vars

\* Consecutive nodes are joined by an edge of the skeleton.
IsWalk(g, nodes) ==
    \A j \in 1..(Len(nodes) - 1) : Adjacent(g, nodes[j], nodes[j + 1])

\* A path that omits its branch point `from`: its stored length counts the
\* edge from `from` to its first node and the edges between its nodes.
BranchLengthOK(g, from, p) ==
    IF p.path = <<>> THEN p.length = 0
    ELSE /\ Adjacent(g, from, p.path[1])
         /\ IsWalk(g, p.path)
         /\ p.length = get_neighbor_distance(g, from, p.path[1]) + ArcLength(g, p.path)

MainLengthOK(g, ex) == IsWalk(g, ex.path) /\ ex.length = ArcLength(g, ex.path)

\* C5: every path produced has a stored length equal to the sum of the edge
\* lengths between its consecutive nodes: the main path after
\* reshape_longest_path, every side branch recorded after it (the pushed back
\* ones included), and the results of find_longest_path_on_circle and
\* find_longest_path_on_circles, counted from the circle's entry node.
C5_StoredLengthIsArcLength ==
    /\ (mode = "reshape" /\ pc /= "call") =>
          /\ MainLengthOK(graph, result)
          /\ \A k \in DOMAIN result.side_branches :
                \A b \in Range(result.side_branches[k]) : BranchLengthOK(graph, k, b)
    /\ (mode = "circle" /\ pc = "done") =>
          BranchLengthOK(graph, TheCircle.path[1], result)
    /\ (mode = "circles" /\ pc = "done") =>
          BranchLengthOK(graph, arg.input_node, result)

\* A reshape that spliced a side branch of several nodes into a main path of
\* several nodes and pushed the walked part back.
C5_Witness ==
    /\ mode = "reshape" /\ pc = "reshaped"
    /\ Len(ex_path.path) >= 2
    /\ Len(result.path) > Len(ex_path.path)
    /\ result.length > ex_path.length
    /\ \E k \in DOMAIN result.side_branches :
          \E b \in Range(result.side_branches[k]) :
              /\ Len(b.path) >= 1
              /\ b \notin Range(ex_path.side_branches[k])

(***************************************************************************)
(* VoronoiGraphUtils::getSkeleton                                          *)
(*                                                                         *)
(* The annotated diagram: four vertices at the corners (0,0), (3,0), (3,4) *)
(* and (0,4) of a rectangle, each with a category, and a sequence of       *)
(* half-edges in which the twins sit next to each other (edges[2k - 1] and *)
(* edges[2k]), so that the address comparison &edge > edge.twin() is the   *)
(* comparison of their indexes.  The edges are sides of the rectangle or   *)
(* the diagonal from vertex 1 (the subdivision is planar), no two twin     *)
(* pairs join the same two vertices, and the pairs come in the order of    *)
(* Sides.  Vertex 1 is on the contour (every island has such a vertex,     *)
(* line 487).                                                              *)
(* arg is [category, edges, edge_idx, aborted, side]; edge_idx is the      *)
(* 1-based index of the half-edge the loop visits next, side the place in  *)
(* Sides of the last pair drawn; result is skeleton.data.                  *)
(* The distance to the island border that getNode stores in a new Node is  *)
(* not read by any function of this file and is left out.                  *)
(***************************************************************************)
Vertices == {1, 2, 3, 4}

Sides == <<{1, 2}, {2, 3}, {3, 4}, {4, 1}, {1, 3}>>

VertexX(v) == IF v \in {2, 3} THEN 3 ELSE 0

VertexY(v) == IF v \in {3, 4} THEN 4 ELSE 0

VertexCategories == {"Inside", "OnContour", "Outside", "Unknown"}

\* The shapes a twin pair is drawn from: <<is_secondary, is_infinite,
\* is_linear, category of the half-edge, category of its twin>>.
EdgeShapes ==
    {<<FALSE, FALSE, TRUE, "PointsInside", "PointsInside">>,
     <<FALSE, FALSE, FALSE, "PointsToContour", "PointsInside">>,
     <<FALSE, FALSE, TRUE, "PointsOutside", "PointsOutside">>,
     <<TRUE, FALSE, TRUE, "PointsInside", "PointsInside">>,
     <<FALSE, TRUE, TRUE, "PointsInside", "PointsInside">>}

HalfEdge(v0, v1, shape, category) ==
    [vertex0 |-> v0, vertex1 |-> v1, is_secondary |-> shape[1],
     is_infinite |-> shape[2], is_linear |-> shape[3], category |-> category]

\* A half-edge from v0 to v1 and its twin from v1 to v0.
TwinPair(v0, v1, shape) ==
    <<HalfEdge(v0, v1, shape, shape[4]), HalfEdge(v1, v0, shape, shape[5])>>

\* edge.twin(), as an index into vd.edges().
Twin(i) == IF i % 2 = 1 THEN i + 1 ELSE i - 1

\* sqrt of a perfect square.
Sqrt(x) == CHOOSE r \in 0..x : r * r = x

\* Lines 69-77.
EdgeLength(edge) ==
    IF edge.is_linear
    THEN LET diffX == VertexX(edge.vertex0) - VertexX(edge.vertex1)
             diffY == VertexY(edge.vertex0) - VertexY(edge.vertex1)
         IN  Sqrt(diffX * diffX + diffY * diffY)
    ELSE 1

\* VoronoiGraphUtils::getNode: the node of the vertex, created on first use.
getNode(data, vertex) ==
    IF vertex \in DOMAIN data THEN data
    ELSE [v \in DOMAIN data \cup {vertex} |->
             IF v = vertex THEN [neighbors |-> <<>>] ELSE data[v]]

\* Lines 79-86 with the second record referencing the half-edge itself
\* instead of its twin.
AddEdge_NoTwin(data, edges, i) ==
    LET edge == edges[i]
        length == EdgeLength(edge)
        d1 == getNode(getNode(data, edge.vertex0), edge.vertex1)
        neighbor0 == [edge |-> i, edge_length |-> length, node |-> edge.vertex1]
        d2 == [d1 EXCEPT ![edge.vertex0].neighbors = Append(@, neighbor0)]
        neighbor1 == [edge |-> i, edge_length |-> length, node |-> edge.vertex0]
    IN  [d2 EXCEPT ![edge.vertex1].neighbors = Append(@, neighbor1)]

\* Lines 69-86: the two Neighbor records of an accepted half-edge.
AddEdge(data, edges, i) ==
    LET edge == edges[i]
        length == EdgeLength(edge)
        d1 == getNode(getNode(data, edge.vertex0), edge.vertex1)
        neighbor0 == [edge |-> i, edge_length |-> length, node |-> edge.vertex1]
        d2 == [d1 EXCEPT ![edge.vertex0].neighbors = Append(@, neighbor0)]
        neighbor1 == [edge |-> Twin(i), edge_length |-> length, node |-> edge.vertex0]
    IN  [d2 EXCEPT ![edge.vertex1].neighbors = Append(@, neighbor1)]

\* The test of lines 44-55 with an Unknown endpoint looked for before an
\* Outside one.
EdgeVerdict_UnknownFirst(category, edges, i) ==
    LET edge == edges[i]
    IN  IF \/ edge.is_secondary
           \/ edge.is_infinite
           \/ i > Twin(i)
           \/ (edge.category /= "PointsInside" /\
               edges[Twin(i)].category /= "PointsInside")
        THEN "continue"
        ELSE IF \/ category[edge.vertex0] = "Unknown"
                \/ category[edge.vertex1] = "Unknown"
             THEN "return"
             ELSE IF \/ category[edge.vertex0] = "Outside"
                     \/ category[edge.vertex1] = "Outside"
                  THEN "continue"
                  ELSE "accept"

\* Lines 44-67: what the loop does with half-edge i.
EdgeVerdict(category, edges, i) ==
    LET edge == edges[i]
    IN  IF \/ edge.is_secondary
           \/ edge.is_infinite
           \/ i > Twin(i)
           \/ (edge.category /= "PointsInside" /\
               edges[Twin(i)].category /= "PointsInside")
        THEN "continue"
        ELSE IF \/ category[edge.vertex0] = "Outside"
                \/ category[edge.vertex1] = "Outside"
             THEN "continue"
             ELSE IF \/ category[edge.vertex0] = "Unknown"
                     \/ category[edge.vertex1] = "Unknown"
                  THEN "return"
                  ELSE "accept"

InitSkeleton ==
    \E category \in [Vertices -> VertexCategories] :
        /\ category[1] = "OnContour"
        /\ \A v \in Vertices \ {1} : category[v] /= "OnContour"
        /\ mode = "skeleton"
        /\ pc = "loop"
        /\ graph = <<>>
        /\ ex_path = NoExPath
        /\ arg = [category |-> category, edges |-> <<>>, edge_idx |-> 1,
                  aborted |-> FALSE, side |-> 0]
        /\ result = EmptyMap
        /\ call_stack = <<>>
        /\ heap = NoHeap

\* One iteration of the loop over vd.edges() (lines 42-87), on half-edge
\* arg.edge_idx of `edges`.
Iterate(edges, side) ==
    LET verdict == EdgeVerdict(arg.category, edges, arg.edge_idx)
    IN  /\ arg' = [arg EXCEPT !.edges = edges,
                              !.side = side,
                              !.edge_idx = IF verdict = "return" THEN @ ELSE @ + 1,
                              !.aborted = (verdict = "return")]
        /\ result' = CASE verdict = "continue" -> result
                       [] verdict = "return" -> EmptyMap
                       [] verdict = "accept" -> AddEdge(result, edges, arg.edge_idx)
        /\ pc' = IF verdict = "return" THEN "done" ELSE "loop"
        /\ UNCHANGED <<mode, graph, ex_path, call_stack, heap>>

\* The loop comes to the first half-edge of the diagram's next twin pair.
GetSkeletonEdge ==
    /\ mode = "skeleton"
    /\ pc = "loop"
    /\ arg.edge_idx > Len(arg.edges)
    /\ Len(arg.edges) < 2 * MaxEdgePairs
    /\ \E side \in (arg.side + 1)..Len(Sides) :
       \E v0 \in Sides[side], v1 \in Sides[side], shape \in EdgeShapes :
          /\ v0 /= v1
          /\ Iterate(arg.edges \o TwinPair(v0, v1, shape), side)

\* The loop comes to the twin of the half-edge it visited last.
GetSkeletonTwin ==
    /\ mode = "skeleton"
    /\ pc = "loop"
    /\ arg.edge_idx <= Len(arg.edges)
    /\ Iterate(arg.edges, arg.side)

\* The diagram has no more edges: line 88.
GetSkeletonReturn ==
    /\ mode = "skeleton"
    /\ pc = "loop"
    /\ arg.edge_idx > Len(arg.edges)
    /\ pc' = "done"
    /\ UNCHANGED <<mode, graph, ex_path, arg, result, call_stack, heap>>

NextSkeleton == GetSkeletonEdge \/ GetSkeletonTwin \/ GetSkeletonReturn

SpecSkeleton == InitSkeleton /\ [][NextSkeleton]_vars

(***************************************************************************)
(* Claims about getSkeleton.                                               *)
(***************************************************************************)
\* The half-edges the loop has visited.
Visited == 1..(arg.edge_idx - 1)

\* Primary, bounded, not the higher twin, not an outer edge.
Qualifies(i) ==
    /\ ~arg.edges[i].is_secondary
    /\ ~arg.edges[i].is_infinite
    /\ i < Twin(i)
    /\ "PointsInside" \in {arg.edges[i].category, arg.edges[Twin(i)].category}

EndpointCategories(i) ==
    {arg.category[arg.edges[i].vertex0], arg.category[arg.edges[i].vertex1]}

\* An accepted edge: it qualifies and both its endpoints are classified
\* Inside or OnContour.
Accepted(i) == Qualifies(i) /\ EndpointCategories(i) \subseteq {"Inside", "OnContour"}

HasNeighbor(data, from, edge, length, to) ==
    /\ from \in DOMAIN data
    /\ \E k \in DOMAIN data[from].neighbors :
          data[from].neighbors[k] = [edge |-> edge, edge_length |-> length, node |-> to]

\* C3: while the skeleton is built and when it is returned, every accepted
\* edge between v0 and v1 has a Neighbor record on node(v0) that points to
\* node(v1) and references the half-edge, and one on node(v1) that points to
\* node(v0) and references its twin, both with the same length (the distance
\* of the vertices for a linear edge, 1 for a curved one).
C3_ReciprocalNeighbors ==
    (mode = "skeleton" /\ ~arg.aborted) =>
        \A i \in Visited :
            Accepted(i) =>
                LET length == EdgeLength(arg.edges[i])
                IN  /\ HasNeighbor(result, arg.edges[i].vertex0, i, length,
                                   arg.edges[i].vertex1)
                    /\ HasNeighbor(result, arg.edges[i].vertex1, Twin(i), length,
                                   arg.edges[i].vertex0)

\* A returned skeleton with two accepted edges, one linear and one curved.
C3_Witness ==
    /\ mode = "skeleton" /\ pc = "done" /\ ~arg.aborted
    /\ \E i \in Visited, j \in Visited :
          /\ Accepted(i) /\ Accepted(j)
          /\ arg.edges[i].is_linear /\ ~arg.edges[j].is_linear
    /\ Cardinality(DOMAIN result) = 3

SkeletonReturned == mode = "skeleton" /\ pc = "done"

\* C4 as stated: a qualifying half-edge with an Unknown endpoint makes
\* getSkeleton return an empty skeleton.
C4_UnknownAborts ==
    SkeletonReturned =>
        ((\E i \in DOMAIN arg.edges : Qualifies(i) /\ "Unknown" \in EndpointCategories(i))
            => result = EmptyMap)

\* C4 amended: getSkeleton gives up and returns an empty skeleton, whatever
\* it had built, exactly when a qualifying half-edge has an Unknown endpoint
\* and no Outside endpoint; a qualifying half-edge with an Outside endpoint is
\* skipped without aborting, also when its other endpoint is Unknown.
C4_UnknownAbortsUnlessOutside ==
    SkeletonReturned =>
        /\ arg.aborted <=>
              \E i \in DOMAIN arg.edges :
                  /\ Qualifies(i)
                  /\ "Unknown" \in EndpointCategories(i)
                  /\ "Outside" \notin EndpointCategories(i)
        /\ arg.aborted => result = EmptyMap
        /\ ~arg.aborted =>
              \A i \in DOMAIN arg.edges :
                  (Qualifies(i) /\ "Outside" \in EndpointCategories(i)) =>
                      \A v \in DOMAIN result :
                          \A k \in DOMAIN result[v].neighbors :
                              result[v].neighbors[k].edge \notin {i, Twin(i)}

\* An abort on the second twin pair, after the first pair was accepted.
C4_Witness ==
    /\ SkeletonReturned
    /\ arg.aborted
    /\ result = EmptyMap
    /\ arg.edge_idx = 3
    /\ Accepted(1)
    /\ "Unknown" \in EndpointCategories(3)

(***************************************************************************)
(* VoronoiGraphUtils::create_longest_path                                  *)
(*                                                                         *)
(* The loop of lines 407-413 pops a task and runs it.  The task classes    *)
(* (EvaluateNeighbor, ExpandNeighbor, PostProcessNeighbor and              *)
(* PostProcessNeighbors) are not among the sources at hand; they are       *)
(* modelled after the specification of the path explorer, around the       *)
(* functions of VoronoiGraphUtils.cpp written for them: create_circle,     *)
(* find_longest_path_on_circles and append_neighbor_branch.  A task is a   *)
(* record; heap.data holds the node data the tasks of one node share,      *)
(* heap.ex the extended paths, heap.ex[1] being longest_path.              *)
(***************************************************************************)
Last(s) == s[Len(s)]

NumEdges(g) == SumSeq([n \in 1..Cardinality(DOMAIN g) |-> Len(g[n])]) \div 2

Task(type, data, neighbor, neighbor_path) ==
    [type |-> type, data |-> data, neighbor |-> neighbor,
     neighbor_path |-> neighbor_path]

\* The data of the tasks of one node: the node is entered from the last node
\* of prev_path over an edge of length distance_to_node, its findings go to
\* the extended path result_path.
NodeData(result_path, node, distance_to_node, prev_path) ==
    [result |-> result_path, node |-> node, distance_to_node |-> distance_to_node,
     act_path |-> PathAppend(prev_path, node, distance_to_node),
     skip_nodes |-> IF prev_path.path = <<>> THEN {} ELSE {Last(prev_path.path)},
     circle_indexes |-> <<>>, end_circle_indexes |-> <<>>,
     side_branches |-> <<>>]

NoCircle == [path |-> <<>>, length |-> 0]

\* VoronoiGraphUtils::create_circle
create_circle(path, neighbor) ==
    LET passed_nodes == path.path
        end_find == Len(passed_nodes)
        path_item == Find(SubSeq(passed_nodes, 1, end_find - 1), neighbor.node)
    IN  IF path_item = end_find THEN NoCircle
        ELSE [path |-> SubSeq(passed_nodes, path_item, Len(passed_nodes)),
              length |-> path.length + neighbor.edge_length]

\* Line 410.
Pop(stack) == SubSeq(stack, 1, Len(stack) - 1)

\* EvaluateNeighbor: one task per neighbor of the node, and under them the
\* task that sums the node up.
EvaluateNeighbor(g, stack, h, task) ==
    LET data == h.data[task.data]
    IN  [call_stack |-> stack
                        \o <<Task("PostProcessNeighbors", task.data, 0, 0)>>
                        \o [k \in 1..Len(g[data.node]) |->
                               Task("ExpandNeighbor", task.data, k, 0)],
         heap |-> h]

\* ExpandNeighbor: a neighbor to skip, a circle closed, a leaf, or a node to
\* explore in its own extended path.
ExpandNeighbor(g, stack, h, task) ==
    LET data == h.data[task.data]
        neighbor == g[data.node][task.neighbor]
        circle_opt == create_circle(data.act_path, neighbor)
        circle_index == Len(h.ex[data.result].circles)
        side_branch == [path |-> <<neighbor.node>>, length |-> neighbor.edge_length]
        neighbor_path == Len(h.ex) + 1
    IN  IF neighbor.node \in data.skip_nodes
        THEN [call_stack |-> stack, heap |-> h]
        ELSE IF circle_opt /= NoCircle
        THEN [call_stack |-> stack,
              heap |-> [h EXCEPT
                          !.data[task.data].circle_indexes = Append(@, circle_index),
                          !.ex[data.result].circles = Append(@, circle_opt)]]
        ELSE IF Len(g[neighbor.node]) = 1
        THEN [call_stack |-> stack,
              heap |-> [h EXCEPT
                          !.data[task.data].side_branches = PQPush(@, side_branch)]]
        ELSE [call_stack |-> stack
                  \o <<Task("PostProcessNeighbor", task.data, 0, neighbor_path),
                       Task("EvaluateNeighbor", Len(h.data) + 1, 0, 0)>>,
              heap |-> [data |-> Append(h.data,
                                    NodeData(neighbor_path, neighbor.node,
                                             neighbor.edge_length, data.act_path)),
                        ex |-> Append(h.ex, NoExPath)]]

\* The indexes of a set of naturals in increasing order.
RECURSIVE Sorted(_)
Sorted(S) ==
    IF S = {} THEN <<>>
    ELSE LET m == CHOOSE x \in S : \A y \in S : x <= y
         IN  <<m>> \o Sorted(S \ {m})

\* PostProcessNeighbor: the explored neighbor's extended path comes back to
\* the node it was explored from.  A neighbor with no path lies on a circle
\* not yet resolved; the node notes the circles it lies on, and where it is
\* the first node of one, takes the path before the circle off the circle's
\* length.  Everything found is merged into the node's own extended path.
PostProcessNeighbor(g, stack, h, task) ==
    LET data == h.data[task.data]
        neighbor_path == h.ex[task.neighbor_path]
        on_circle == IF neighbor_path.path = <<>>
                     THEN {i \in DOMAIN neighbor_path.circles :
                              data.node \in Range(neighbor_path.circles[i].path)}
                     ELSE {}
        ends == {i \in on_circle : neighbor_path.circles[i].path[1] = data.node}
        base == Len(h.ex[data.result].circles)
        fixed == [neighbor_path EXCEPT
                    !.circles = [i \in DOMAIN neighbor_path.circles |->
                                    IF i \in ends
                                    THEN [neighbor_path.circles[i] EXCEPT
                                            !.length = @ - data.act_path.length]
                                    ELSE neighbor_path.circles[i]]]
        data1 == [data EXCEPT
                    !.circle_indexes =
                        @ \o [k \in 1..Cardinality(on_circle) |->
                                 base + Sorted(on_circle)[k] - 1],
                    !.end_circle_indexes =
                        @ \o [k \in 1..Cardinality(ends) |->
                                 base + Sorted(ends)[k] - 1],
                    !.skip_nodes =
                        @ \cup {Last(neighbor_path.circles[i].path) : i \in ends},
                    !.side_branches =
                        IF on_circle = {}
                        THEN PQPush(@, [path |-> neighbor_path.path,
                                        length |-> neighbor_path.length])
                        ELSE @]
    IN  [call_stack |-> stack,
         heap |-> [h EXCEPT
                     !.data[task.data] = data1,
                     !.ex[data.result] = append_neighbor_branch(@, fixed)]]

\* Every pair of different circles of circle_indexes lists each other.
ConnectCircles(connected_circle, circle_indexes) ==
    IF Len(circle_indexes) > 1
    THEN [c \in DOMAIN connected_circle \cup Range(circle_indexes) |->
             MapGet(connected_circle, c) \cup
             (IF c \in Range(circle_indexes)
              THEN Range(circle_indexes) \ {c} ELSE {})]
    ELSE connected_circle

\* The node is the first node of every circle it lies on.
EndOfCircles(data) ==
    /\ data.end_circle_indexes /= <<>>
    /\ Len(data.end_circle_indexes) = Len(data.circle_indexes)

\* What the asserts of find_longest_path_on_circle (lines 167-169) and of
\* find_longest_path_on_circles (lines 263-265) require of the circles that
\* end in a node: one of their nodes owns a side branch.
CircleHasBranch(ex, circle_index) ==
    \E c \in {circle_index} \cup MapGet(ex.connected_circle, circle_index) :
        Range(ex.circles[c + 1].path) \cap DOMAIN ex.side_branches /= {}

\* PostProcessNeighbors: the node is summed up once all its neighbors are
\* done.  `circle_path` is the side branch that stands for the circles that
\* end in the node.
PostProcessNeighbors(h, task, circle_path) ==
    LET data == h.data[task.data]
        result_path == [h.ex[data.result] EXCEPT
                     !.connected_circle = ConnectCircles(@, data.circle_indexes)]
        side_branches == IF EndOfCircles(data)
                         THEN PQPush(data.side_branches, circle_path)
                         ELSE data.side_branches
        circle_indexes == IF EndOfCircles(data) THEN <<>> ELSE data.circle_indexes
        longest_path == PQTop(side_branches)
        rest == PQPop(side_branches)
    IN  [h EXCEPT
           !.data[task.data].side_branches = side_branches,
           !.data[task.data].circle_indexes = circle_indexes,
           !.ex[data.result] =
               IF side_branches = <<>> THEN result_path
               ELSE IF circle_indexes /= <<>>
               THEN [result_path EXCEPT !.side_branches = MapPut(@, data.node, side_branches)]
               ELSE [result_path EXCEPT
                       !.side_branches = IF rest /= <<>>
                                         THEN MapPut(@, data.node, rest) ELSE @,
                       !.path = <<data.node>> \o longest_path.path,
                       !.length = data.distance_to_node + longest_path.length]]

(***************************************************************************)
(* Inputs of create_longest_path: a connected skeleton on the nodes 1..n,  *)
(* a tree with at most one more edge that closes a circle, explored from   *)
(* node 1.                                                                 *)
(***************************************************************************)
Chords(n, p) ==
    {<<>>} \cup
    {<<<<a, b, l>>>> : <<a, b, l>> \in
        {x \in (1..n) \X (2..n) \X TreeEdgeLengths :
            x[1] < x[2] /\ p[x[2]] /= x[1]}}

ExploreGraph(n, p, len, chord) ==
    MakeGraph(1..n, [i \in 1..(n - 1) |-> <<p[i + 1], i + 1, len[i + 1]>>] \o chord)

InitExplore ==
    \E n \in 2..MaxSkeletonNodes :
    \E p \in TreeShapes(n) :
    \E len \in [2..n -> TreeEdgeLengths] :
    \E chord \in Chords(n, p) :
        /\ mode = "explore"
        /\ pc = "loop"
        /\ graph = ExploreGraph(n, p, len, chord)
        /\ ex_path = NoExPath
        /\ arg = [start_node |-> 1]
        /\ result = NoExPath
        /\ call_stack = <<Task("EvaluateNeighbor", 1, 0, 0)>>
        /\ heap = [data |-> <<NodeData(1, 1, 0, NullPath)>>, ex |-> <<NoExPath>>]

\* The task the loop of lines 407-413 takes next.
Top == Last(call_stack)

Looping(type) ==
    /\ mode \in {"explore", "sample"}
    /\ pc = "loop"
    /\ call_stack /= <<>>
    /\ Top.type = type

\* The loop has run a task that left `after` behind.
Processed(after) ==
    /\ call_stack' = after.call_stack
    /\ heap' = after.heap
    /\ UNCHANGED <<mode, pc, graph, ex_path, arg, result>>

ProcessEvaluateNeighbor ==
    /\ Looping("EvaluateNeighbor")
    /\ Processed(EvaluateNeighbor(graph, Pop(call_stack), heap, Top))

ProcessExpandNeighbor ==
    /\ Looping("ExpandNeighbor")
    /\ Processed(ExpandNeighbor(graph, Pop(call_stack), heap, Top))

ProcessPostProcessNeighbor ==
    /\ Looping("PostProcessNeighbor")
    /\ Processed(PostProcessNeighbor(graph, Pop(call_stack), heap, Top))

\* Circles that end in the node are resolved by find_longest_path_on_circles.
\* Where none of their nodes owns a side branch the run stops there: the
\* function's asserts fail, and a build without asserts reads through the
\* null pointer longest_circle_branch (line 187).
ProcessPostProcessNeighbors ==
    /\ Looping("PostProcessNeighbors")
    /\ LET data == heap.data[Top.data]
           result_ex == [heap.ex[data.result] EXCEPT
                           !.connected_circle = ConnectCircles(@, data.circle_indexes)]
       IN  IF EndOfCircles(data) /\ ~CircleHasBranch(result_ex, data.circle_indexes[1])
           THEN /\ pc' = "aborted"
                /\ call_stack' = Pop(call_stack)
                /\ UNCHANGED <<mode, graph, ex_path, arg, result, heap>>
           ELSE Processed(
                    [call_stack |-> Pop(call_stack),
                     heap |-> PostProcessNeighbors(heap, Top,
                                  IF EndOfCircles(data)
                                  THEN find_longest_path_on_circles(
                                           graph, data.node,
                                           data.circle_indexes[1], result_ex)
                                  ELSE NullPath)])

\* Lines 415-417: the stack is empty, the longest path is reshaped and
\* returned.
CreateLongestPathReturn ==
    /\ mode = "explore"
    /\ pc = "loop"
    /\ call_stack = <<>>
    /\ result' = reshape_longest_path(graph, heap.ex[1])
    /\ pc' = "done"
    /\ UNCHANGED <<mode, graph, ex_path, arg, call_stack, heap>>

NextExplore ==
    \/ ProcessEvaluateNeighbor
    \/ ProcessExpandNeighbor
    \/ ProcessPostProcessNeighbor
    \/ ProcessPostProcessNeighbors
    \/ CreateLongestPathReturn

SpecExplore == InitExplore /\ [][NextExplore]_vars /\ WF_vars(NextExplore)

(***************************************************************************)
(* Claims about create_longest_path.                                       *)
(***************************************************************************)
Explored == mode = "explore" /\ pc = "done"

IsTree(g) == NumEdges(g) = Cardinality(DOMAIN g) - 1

\* The length of the longest simple path of the skeleton (the skeletons
\* explored are connected).
LongestSimple(g) == MaxOf({ArcLength(g, q) : q \in SimplePaths(g)})

\* C1 as stated: on every skeleton, with or without circles,
\* create_longest_path returns a simple path of the skeleton whose length is
\* the greatest length of a simple path of the start node's component.
C1_LongestSimplePath ==
    Explored => /\ result.path \in SimplePaths(graph)
                /\ result.length = LongestSimple(graph)

\* On a skeleton without circles the returned path is simple and the longest.
LongestSimplePathOfTree ==
    (Explored /\ IsTree(graph)) => /\ result.path \in SimplePaths(graph)
                                   /\ result.length = LongestSimple(graph)

\* The loop of lines 407-413 has found the stack empty.
StackEmptied == mode = "explore" /\ pc /= "aborted" /\ call_stack = <<>>

\* C2 as stated: on every skeleton, with or without circles, the work-stack
\* never holds more tasks than four times the number of edges, and the
\* pop-and-process loop eventually empties it.
C2_LoopEmptiesStack ==
    /\ [](Len(call_stack) <= 4 * NumEdges(graph))
    /\ <>StackEmptied

(***************************************************************************)
(* VoronoiGraphUtils::sample_voronoi_graph                                 *)
(*                                                                         *)
(* The skeleton sampled is one getSkeleton builds on the rectangle of      *)
(* Vertices: up to MaxSampleEdges of the Sides, each a straight edge or a  *)
(* curved one, accepted in the order of Sides, or a graph of one node and  *)
(* no edge.  arg is [category, edges, start_node, config]; the longest     *)
(* path found is kept in ex_path (the in-out parameter longest_path) and   *)
(* the points returned in result.                                          *)
(* A point is the pair of exact coordinates x / den and y / den.           *)
(* A failed assert stops a build with asserts (pc = "aborted"); a build    *)
(* without them goes on wherever the statements that follow are defined.   *)
(***************************************************************************)
PointOf(x, y, den) == [x |-> x, y |-> y, den |-> den]

VertexPoint(v) == PointOf(VertexX(v), VertexY(v), 1)

\* Lines 420-440 with the ratio measured from vertex1 back to vertex0.
get_edge_point_FromEnd(edge, num, den) ==
    LET v0 == edge.vertex1
        v1 == edge.vertex0
    IN  IF num <= 0 THEN VertexPoint(v0)
        ELSE IF num >= den THEN VertexPoint(v1)
        ELSE IF edge.is_linear
        THEN PointOf(VertexX(v0) * den + (VertexX(v1) - VertexX(v0)) * num,
                     VertexY(v0) * den + (VertexY(v1) - VertexY(v0)) * num, den)
        ELSE VertexPoint(v0)

\* VoronoiGraphUtils::get_edge_point, the ratio being num / den.
get_edge_point(edge, num, den) ==
    LET v0 == edge.vertex0
        v1 == edge.vertex1
    IN  IF num <= 0 THEN VertexPoint(v0)
        ELSE IF num >= den THEN VertexPoint(v1)
        ELSE IF edge.is_linear
        THEN PointOf(VertexX(v0) * den + (VertexX(v1) - VertexX(v0)) * num,
                     VertexY(v0) * den + (VertexY(v1) - VertexY(v0)) * num, den)
        ELSE VertexPoint(v0)

\* The loop of lines 449-463 from the i-th node of the path on; the path
\* exhausted, assert(false) fails and Point(0, 0) is returned (lines 464-468).
RECURSIVE CenterLoop(_, _, _, _, _, _)
CenterLoop(g, edges, path, path_length, i, distance) ==
    IF i > Len(path)
    THEN [asserted |-> TRUE, defined |-> TRUE, point |-> PointOf(0, 0, 1)]
    ELSE LET neighbor == g[path[i - 1]][get_neighbor(g, path[i - 1], path[i])]
             d == distance + neighbor.edge_length
         IN  IF 2 * d >= path_length
             THEN [asserted |-> FALSE, defined |-> TRUE,
                   point |-> get_edge_point(edges[neighbor.edge],
                                 2 * neighbor.edge_length - (2 * d - path_length),
                                 2 * neighbor.edge_length)]
             ELSE CenterLoop(g, edges, path, path_length, i + 1, d)

\* VoronoiGraphUtils::get_center_of_path.
get_center_of_path(g, edges, path, path_length) ==
    CenterLoop(g, edges, path, path_length, 2, 0)

\* Lines 91-109 with the direction taken away from the neighbor.
get_offseted_point_Outwards(g, edges, node, padding) ==
    IF g[node] = <<>>
    THEN [asserted |-> TRUE, defined |-> FALSE, point |-> PointOf(0, 0, 1)]
    ELSE LET neighbor == g[node][1]
             edge == edges[neighbor.edge]
             v0 == edge.vertex0
             v1 == edge.vertex1
             dirX == VertexX(v0) - VertexX(v1)
             dirY == VertexY(v0) - VertexY(v1)
             sign == IF node = v0 THEN 1 ELSE -1
         IN  [asserted |-> Len(g[node]) /= 1 \/ node \notin {v0, v1},
              defined |-> TRUE,
              point |-> PointOf(VertexX(node) * neighbor.edge_length
                                    + sign * dirX * padding,
                                VertexY(node) * neighbor.edge_length
                                    + sign * dirY * padding,
                                neighbor.edge_length)]

\* VoronoiGraphUtils::get_offseted_point: the node moved by
\* dir / (edge_length / padding) along its first edge.  On a node without
\* neighbors neighbors.front() has no defined value.
get_offseted_point(g, edges, node, padding) ==
    IF g[node] = <<>>
    THEN [asserted |-> TRUE, defined |-> FALSE, point |-> PointOf(0, 0, 1)]
    ELSE LET neighbor == g[node][1]
             edge == edges[neighbor.edge]
             v0 == edge.vertex0
             v1 == edge.vertex1
             dirX == VertexX(v0) - VertexX(v1)
             dirY == VertexY(v0) - VertexY(v1)
             sign == IF node = v0 THEN -1 ELSE 1
         IN  [asserted |-> Len(g[node]) /= 1 \/ node \notin {v0, v1},
              defined |-> TRUE,
              point |-> PointOf(VertexX(node) * neighbor.edge_length
                                    + sign * dirX * padding,
                                VertexY(node) * neighbor.edge_length
                                    + sign * dirY * padding,
                                neighbor.edge_length)]

\* Lines 477-485: the first node of graph.data, in the order of its keys,
\* whose vertex is on the contour; 0 for nullptr.
FirstOnContour(data, category) ==
    LET on == {v \in DOMAIN data : category[v] = "OnContour"}
    IN  IF on = {} THEN 0 ELSE CHOOSE v \in on : \A w \in on : v <= w

\* Lines 491-492 with the threshold itself on the side of the single point.
OnePointSuffices_AtThreshold(length, config) ==
    length <= config.max_length_for_one_support_point

\* Lines 491-492.
OnePointSuffices(length, config) ==
    length < config.max_length_for_one_support_point

StraightEdge == <<FALSE, FALSE, TRUE, "PointsInside", "PointsInside">>

CurvedEdge == <<FALSE, FALSE, FALSE, "PointsToContour", "PointsInside">>

LowEnd(side) == CHOOSE v \in side : \A w \in side : v <= w

HighEnd(side) == CHOOSE v \in side : \A w \in side : w <= v

\* The twin pairs of the chosen sides, in the order of Sides.
RECURSIVE SampleEdges(_, _, _)
SampleEdges(chosen, curved, k) ==
    IF k = 0 THEN <<>>
    ELSE SampleEdges(chosen, curved, k - 1) \o
         (IF k \in chosen
          THEN TwinPair(LowEnd(Sides[k]), HighEnd(Sides[k]),
                        IF k \in curved THEN CurvedEdge ELSE StraightEdge)
          ELSE <<>>)

\* skeleton.data after getSkeleton has accepted the first k twin pairs.
RECURSIVE SampleData(_, _)
SampleData(edges, k) ==
    IF k = 0 THEN EmptyMap
    ELSE AddEdge(SampleData(edges, k - 1), edges, 2 * k - 1)

NeighborsOf(data) == [v \in DOMAIN data |-> data[v].neighbors]

RECURSIVE Reach(_, _)
Reach(g, S) ==
    LET T == S \cup {g[v][i].node : <<v, i>> \in
                        {x \in S \X (1..MaxSampleEdges) : x[2] <= Len(g[x[1]])}}
    IN  IF T = S THEN S ELSE Reach(g, T)

Connected(g) == \A v \in DOMAIN g : Reach(g, {v}) = DOMAIN g

NoConfig == [max_length_for_one_support_point |-> 0, start_distance |-> 0]

SampleConfigs ==
    [max_length_for_one_support_point : 1..MaxSupportLength,
     start_distance : 1..MaxStartDistance]


InitSample ==
    \E chosen \in SUBSET (1..Len(Sides)) :
    \E curved \in SUBSET chosen :
    \E vertex \in Vertices :
        LET edges == SampleEdges(chosen, curved, Len(Sides))
            data == IF chosen = {} THEN getNode(EmptyMap, vertex)
                    ELSE SampleData(edges, Cardinality(chosen))
            g == NeighborsOf(data)
        IN  /\ Cardinality(chosen) <= MaxSampleEdges
            /\ chosen /= {} => vertex = 1
            /\ Connected(g)
            /\ \E category \in [DOMAIN g -> {"Inside", "OnContour"}] :
                  LET start_node == FirstOnContour(data, category)
                  IN  /\ start_node /= 0
                      /\ mode = "sample"
                      /\ pc = "loop"
                      /\ graph = g
                      /\ ex_path = NoExPath
                      /\ arg = [category |-> category, edges |-> edges,
                                start_node |-> start_node, config |-> NoConfig]
                      /\ result = <<>>
                      /\ call_stack = <<Task("EvaluateNeighbor", 1, 0, 0)>>
                      /\ heap = [data |-> <<NodeData(1, start_node, 0, NullPath)>>,
                                 ex |-> <<NoExPath>>]

\* Lines 489-492: create_longest_path returns (lines 415-417, with the
\* assert of line 353 on a path without nodes) and the length of the longest
\* path is tested against the threshold of the config.
SampleLongestPath ==
    /\ mode = "sample"
    /\ pc = "loop"
    /\ call_stack = <<>>
    /\ \E config \in SampleConfigs :
          LET longest_path == reshape_longest_path(graph, heap.ex[1])
          IN  /\ arg' = [arg EXCEPT !.config = config]
              /\ ex_path' = longest_path
              /\ \/ /\ heap.ex[1].path = <<>>
                    /\ pc' = "aborted"
                 \/ pc' = IF OnePointSuffices(longest_path.length, config)
                          THEN "center" ELSE "offset"
    /\ UNCHANGED <<mode, graph, result, call_stack, heap>>

\* The point p of a helper is returned, or its assert has failed.
Returns(outcome) ==
    \/ /\ outcome.asserted
       /\ pc' = "aborted"
       /\ UNCHANGED result
    \/ /\ outcome.defined
       /\ pc' = "done"
       /\ result' = <<outcome.point>>

\* Lines 493-496.
SampleCenter ==
    /\ mode = "sample"
    /\ pc = "center"
    /\ Returns(get_center_of_path(graph, arg.edges, ex_path.path, ex_path.length))
    /\ UNCHANGED <<mode, graph, ex_path, arg, call_stack, heap>>

\* Lines 498-501.
SampleOffset ==
    /\ mode = "sample"
    /\ pc = "offset"
    /\ Returns(get_offseted_point(graph, arg.edges, arg.start_node,
                                  arg.config.start_distance))
    /\ UNCHANGED <<mode, graph, ex_path, arg, call_stack, heap>>

NextSample ==
    \/ ProcessEvaluateNeighbor
    \/ ProcessExpandNeighbor
    \/ ProcessPostProcessNeighbor
    \/ ProcessPostProcessNeighbors
    \/ SampleLongestPath
    \/ SampleCenter
    \/ SampleOffset

SpecSample == InitSample /\ [][NextSample]_vars


(***************************************************************************)
(* Claims about sample_voronoi_graph.                                      *)
(***************************************************************************)
Sampled == mode = "sample" /\ pc = "done"

\* The threshold test has sent the run to get_center_of_path.
CenterSampled == Sampled /\ OnePointSuffices(ex_path.length, arg.config)

\* The threshold test has sent the run to get_offseted_point.
OffsetSampled == Sampled /\ ~OnePointSuffices(ex_path.length, arg.config)

\* Arc length of the longest path from its first node to its i-th node.
Cumulative(i) ==
    SumSeq([j \in 1..(i - 1) |->
               get_neighbor_distance(graph, ex_path.path[j], ex_path.path[j + 1])])

\* The place on the longest path of the end of the edge within which the
\* cumulative length first reaches half of the total length.
HalfIndex ==
    CHOOSE i \in 2..Len(ex_path.path) :
        /\ 2 * Cumulative(i) >= ex_path.length
        /\ \A j \in 2..(i - 1) : 2 * Cumulative(j) < ex_path.length

\* The half-edge of the diagram that leads from node a to its neighbor b.
EdgeBetween(a, b) == arg.edges[graph[a][get_neighbor(graph, a, b)].edge]

IsVertex(p, v) == p.x = VertexX(v) * p.den /\ p.y = VertexY(v) * p.den

\* p lies on the straight segment from vertex a to vertex b, num / den of
\* the way from a.
OnSegmentAt(p, a, b, num, den) ==
    /\ p.x * den = p.den * (VertexX(a) * den + (VertexX(b) - VertexX(a)) * num)
    /\ p.y * den = p.den * (VertexY(a) * den + (VertexY(b) - VertexY(a)) * num)

\* Twice the length from the start of the half-way edge to the half of the
\* path, and twice the length of that edge.
HalfOffset2 == ex_path.length - 2 * Cumulative(HalfIndex - 1)

HalfEdgeLength2 ==
    2 * get_neighbor_distance(graph, ex_path.path[HalfIndex - 1],
                              ex_path.path[HalfIndex])

\* C12 as stated: a longest path shorter than the threshold yields exactly
\* one point, on the path edge within which the cumulative length first
\* reaches half of the total, at the distance (half minus the cumulative
\* length before that edge) from that edge's start; on a curved edge a point
\* at a positive distance from the start is not the start vertex, and the
\* point at the full length of the edge is its end vertex.
C12_PointAtHalfLength ==
    (CenterSampled /\ Len(ex_path.path) >= 2) =>
        LET a == ex_path.path[HalfIndex - 1]
            b == ex_path.path[HalfIndex]
        IN  /\ Len(result) = 1
            /\ EdgeBetween(a, b).vertex0 = a
            /\ IF EdgeBetween(a, b).is_linear
               THEN OnSegmentAt(result[1], a, b, HalfOffset2, HalfEdgeLength2)
               ELSE /\ HalfOffset2 = HalfEdgeLength2 => IsVertex(result[1], b)
                    /\ HalfOffset2 < HalfEdgeLength2 => ~IsVertex(result[1], a)

\* C12 amended: on a straight edge the point lies at that distance from the
\* edge's start; on a curved edge it is the edge's end vertex when the half
\* is reached exactly at the end of the edge and the edge's start vertex
\* otherwise.
C12_PointAtHalfLengthOfStraightEdge ==
    (CenterSampled /\ Len(ex_path.path) >= 2) =>
        LET a == ex_path.path[HalfIndex - 1]
            b == ex_path.path[HalfIndex]
        IN  /\ Len(result) = 1
            /\ EdgeBetween(a, b).vertex0 = a
            /\ IF EdgeBetween(a, b).is_linear
               THEN OnSegmentAt(result[1], a, b, HalfOffset2, HalfEdgeLength2)
               ELSE IsVertex(result[1],
                             IF HalfOffset2 = HalfEdgeLength2 THEN b ELSE a)

\* The half of a path of more than one edge falls inside a straight edge
\* entered at its vertex1 end.
C12_Witness ==
    /\ CenterSampled
    /\ Len(ex_path.path) >= 3
    /\ HalfIndex >= 3
    /\ EdgeBetween(ex_path.path[HalfIndex - 1], ex_path.path[HalfIndex]).is_linear
    /\ ex_path.path[HalfIndex - 1] > ex_path.path[HalfIndex]
    /\ 0 < HalfOffset2
    /\ HalfOffset2 < HalfEdgeLength2


\* The threshold test of lines 491-492 has just been made.
ThresholdTested == mode = "sample" /\ pc \in {"center", "offset"}

\* C13 as stated: a longest path whose length is at or under the threshold,
\* the length exactly equal to it included, is sampled by the single centered
\* point and not by the multi-point start offset.
C13_CenterAtOrUnderThreshold ==
    (ThresholdTested
        /\ ex_path.length <= arg.config.max_length_for_one_support_point)
    => pc = "center"

\* C13 amended: a length strictly under the threshold is sampled by the
\* single centered point; a length exactly equal to the threshold is sampled
\* by the multi-point start offset.
C13_CenterUnderThreshold ==
    ThresholdTested =>
        /\ ex_path.length < arg.config.max_length_for_one_support_point
               => pc = "center"
        /\ ex_path.length = arg.config.max_length_for_one_support_point
               => pc = "offset"

\* A path exactly as long as the threshold has been tested.
C13_Witness ==
    /\ ThresholdTested
    /\ Len(ex_path.path) >= 2
    /\ ex_path.length = arg.config.max_length_for_one_support_point
    /\ pc = "offset"


\* p lies on the straight segment from vertex a to vertex b and is neither.
StrictlyBetween(p, a, b) ==
    LET dx == VertexX(b) - VertexX(a)
        dy == VertexY(b) - VertexY(a)
        px == p.x - VertexX(a) * p.den
        py == p.y - VertexY(a) * p.den
    IN  /\ px * dy = py * dx
        /\ 0 < px * dx + py * dy
        /\ px * dx + py * dy < p.den * (dx * dx + dy * dy)

SingleNodeSampled ==
    /\ mode = "sample"
    /\ graph[arg.start_node] = <<>>
    /\ pc \in {"done", "aborted"}

\* C15 as stated: on a skeleton of a single node and no edges
\* sample_voronoi_graph violates no assertion and returns exactly one point,
\* the node's own position.
C15_SingleNodeOwnPosition ==
    SingleNodeSampled =>
        /\ pc = "done"
        /\ Len(result) = 1
        /\ IsVertex(result[1], arg.start_node)


(***************************************************************************)
(* Further claims about reshape_longest_path.                              *)
(***************************************************************************)
\* reshape_longest_path has returned from its first call.
Reshaped == mode = "reshape" /\ pc = "reshaped"

\* No node of the main path owns a side branch longer than the main path
\* from its first node to that node.
SideBranchesWithinPrefix(ex) ==
    \A i \in DOMAIN ex.path :
        ex.path[i] \in DOMAIN ex.side_branches =>
            PQTop(ex.side_branches[ex.path[i]]).length
                <= ArcLength(graph, SubSeq(ex.path, 1, i))

EntriesTo(data, from, to) ==
    IF from \notin DOMAIN data THEN {}
    ELSE {k \in DOMAIN data[from].neighbors : data[from].neighbors[k].node = to}

\* The Neighbor records, as <<node, place in its list>>, that reference
\* half-edge i.
RecordsOf(data, i) ==
    {x \in (DOMAIN data) \X (1..(2 * MaxEdgePairs)) :
        /\ x[2] <= Len(data[x[1]].neighbors)
        /\ data[x[1]].neighbors[x[2]].edge = i}

NeighborRecords(data) ==
    SumSeq([v \in 1..Cardinality(Vertices) |->
               IF v \in DOMAIN data THEN Len(data[v].neighbors) ELSE 0])

\* C17: while the skeleton is built and when it is returned, no half-edge is
\* referenced by more than one Neighbor record (a twin pair is processed at
\* most once); for the two nodes of an accepted edge each holds exactly one
\* entry that points to the other; and the number of Neighbor records is
\* twice the number of accepted edges.
C17_OneEntryEachWay ==
    (mode = "skeleton" /\ ~arg.aborted) =>
        /\ \A i \in DOMAIN arg.edges : Cardinality(RecordsOf(result, i)) <= 1
        /\ \A i \in Visited :
              Accepted(i) =>
                  /\ Cardinality(EntriesTo(result, arg.edges[i].vertex0,
                                           arg.edges[i].vertex1)) = 1
                  /\ Cardinality(EntriesTo(result, arg.edges[i].vertex1,
                                           arg.edges[i].vertex0)) = 1
        /\ NeighborRecords(result)
               = 2 * Cardinality({i \in Visited : Accepted(i)})

\* A returned skeleton of two accepted edges that meet in a node, the loop
\* having passed over the twins of both.
C17_Witness ==
    /\ mode = "skeleton" /\ pc = "done" /\ ~arg.aborted
    /\ Cardinality({i \in Visited : Accepted(i)}) = 2
    /\ Visited = 1..4
    /\ NeighborRecords(result) = 4
    /\ \E v \in DOMAIN result : Len(result[v].neighbors) = 2


(***************************************************************************)
(* Claims about the multi-circle search of find_longest_path_on_circles.   *)
(***************************************************************************)
CirclesSearched == mode = "circles" /\ pc = "done"

SearchedNodes == CirclesNodes(ex_path, arg.finished_circle_index)

\* The state the search loop ends in.
SearchEnd ==
    SearchCircles(graph, arg.input_node, arg.finished_circle_index, ex_path)

\* The simple paths from the entry node that stay within the circles' nodes.
WithinCircles(neighbor) == neighbor.node \in SearchedNodes

PathsWithinCircles ==
    {q \in SimplePaths([v \in SearchedNodes |-> SelectSeq(graph[v], WithinCircles)]) :
        q[1] = arg.input_node}

MinOf(S) == CHOOSE m \in S : \A x \in S : m <= x

\* For every node v of the circles, the length of a shortest path, within
\* the circles' nodes, from the entry node to v.
ShortestDistance ==
    LET paths == PathsWithinCircles
    IN  [v \in SearchedNodes |->
            MinOf({ArcLength(graph, q) : q \in {r \in paths : Last(r) = v}})]

\* The place in the returned path of the node the chosen side branch hangs at.
AttachIndex ==
    CHOOSE i \in DOMAIN result.path :
        /\ result.path[i] \in SearchedNodes
        /\ \A j \in (i + 1)..Len(result.path) : result.path[j] \notin SearchedNodes

\* The returned path from the entry node to its i-th node.
CirclePart(i) == <<arg.input_node>> \o SubSeq(result.path, 1, i)

BranchOwners == SearchedNodes \cap DOMAIN ex_path.side_branches

LongestBranch(v) == PQTop(ex_path.side_branches[v]).length

ExpandedOnce ==
    LET end == SearchEnd
    IN  /\ \A i \in DOMAIN end.expanded : \A j \in DOMAIN end.expanded :
              end.expanded[i] = end.expanded[j] => i = j
        /\ end.search_queue = <<>>

\* C18 as stated: the search ends with every node expanded at most once; the
\* circle part of the returned path is a shortest path, within the connected
\* circles' nodes, from the entry node to the node the chosen side branch
\* hangs at; and the returned length is the maximum, over the circle nodes
\* that own a branch, of the shortest distance to the node plus the length
\* of its longest branch.
C18_ShortestPathToBranch ==
    CirclesSearched =>
        LET distance == ShortestDistance
        IN  /\ ExpandedOnce
            /\ ArcLength(graph, CirclePart(AttachIndex))
                   = distance[result.path[AttachIndex]]
            /\ result.length
                   = MaxOf({distance[v] + LongestBranch(v) : v \in BranchOwners})

\* C18 amended: the search ends with every node expanded at most once; the
\* circle part of the returned path is a shortest path to the node before
\* the one the chosen side branch hangs at, followed by one edge; the
\* returned length is the length of that circle part plus the length of the
\* longest branch there, and it is at least the maximum, over the circle
\* nodes that own a branch, of the shortest distance plus the longest branch.
C18_ShortestPathThenOneEdge ==
    CirclesSearched =>
        LET distance == ShortestDistance
            part == CirclePart(AttachIndex)
        IN  /\ ExpandedOnce
            /\ part[1] = arg.input_node
            /\ Range(part) \subseteq SearchedNodes
            /\ \A i \in DOMAIN part : \A j \in DOMAIN part : part[i] = part[j] => i = j
            /\ \A i \in 1..(Len(part) - 1) : Adjacent(graph, part[i], part[i + 1])
            /\ ArcLength(graph, CirclePart(AttachIndex - 1))
                   = distance[Last(CirclePart(AttachIndex - 1))]
            /\ result.length = ArcLength(graph, part)
                                   + LongestBranch(result.path[AttachIndex])
            /\ result.length
                   >= MaxOf({distance[v] + LongestBranch(v) : v \in BranchOwners})

\* The branch chosen hangs at a node reached over an edge that is longer
\* than the shortest way to the node.
C18_Witness ==
    /\ CirclesSearched
    /\ AttachIndex >= 1
    /\ ArcLength(graph, CirclePart(AttachIndex))
           > ShortestDistance[result.path[AttachIndex]]
    /\ Len(SearchEnd.expanded) = Cardinality(SearchedNodes)


\* Of the extended path `before` reshape_longest_path has made `after`: the
\* stored length has not dropped and has grown exactly when a splice was
\* made (a splice changes the side branches of its node), every node owns as
\* many side branches as before, and the circles and the connected-circle
\* map are as they were.
NeverShortened(before, after) ==
    /\ after.length >= before.length
    /\ after.length > before.length <=> after.side_branches /= before.side_branches
    /\ DOMAIN after.side_branches = DOMAIN before.side_branches
    /\ \A k \in DOMAIN before.side_branches :
          Len(after.side_branches[k]) = Len(before.side_branches[k])
    /\ after.circles = before.circles
    /\ after.connected_circle = before.connected_circle


\* reshape_longest_path on the extended paths of InitReshape and, as the
\* last step of create_longest_path, on those the search has built, circles
\* included.
InitReshapes == InitReshape \/ InitExplore

NextReshapes == NextReshape \/ NextExplore

SpecReshapes == InitReshapes /\ [][NextReshapes]_vars

\* C19: reshape_longest_path never shortens the main path: the stored length
\* afterwards is at least the length before and is strictly greater exactly
\* when at least one splice was made; a splice leaves the number of side
\* branches recorded at its node as it was; the circles and the
\* connected-circle map are not touched.
C19_NeverShortened ==
    /\ Reshaped => NeverShortened(ex_path, result)
    /\ Explored => NeverShortened(heap.ex[1], result)

\* A splice has been made on an extended path that holds a circle, at a node
\* that keeps its one side branch.
C19_Witness ==
    /\ Explored
    /\ result.length > heap.ex[1].length
    /\ result.path /= heap.ex[1].path
    /\ result.circles /= <<>>
    /\ \E k \in DOMAIN result.side_branches :
          /\ Len(result.side_branches[k]) = 1
          /\ result.side_branches[k] /= heap.ex[1].side_branches[k]

====
